---- MODULE Spec2Model ----
(***************************************************************************)
(* Model of option_file_parser.cpp: one invocation of main() on a          *)
(* key=value option file.  A std::string is a sequence of one-character    *)
(* strings, so that find_first_of, substr and the regex trims are computed *)
(* character by character, as the program computes them.                   *)
(***************************************************************************)
EXTENDS Integers, Sequences, FiniteSets, TLC

\* ------------------------------------------------------------------ bounds
MaxOpts == 2
MaxArgs == 3
MaxLines == 2

\* ------------------------------------------------------------------ inputs
\* option letters getopt can hand to the switch ("?" is an unknown option)
OptLetters == {"h", "v", "f", "w", "r", "d", "?"}

\* positional arguments the command line may carry
ArgStrings ==
  { <<"a">>, <<"b">>, <<"#", "a">>,
    <<"a", "=", "1">>, <<"a", "=", "3">>, <<"b", "=", "2">>,
    <<"a", "=", " ">>, <<"#", "a", "=", "1">> }

\* lines the option file may hold
FileLines ==
  { <<"a", "=", "1">>, <<" ", "a", " ", "=", " ", "2">>, <<"b", "=", "2">>,
    <<"#", "a", "=", "9">>, <<>>, <<"a", "=">> }

RECURSIVE SeqsUpTo(_, _)
SeqsUpTo(S, n) ==
  IF n = 0 THEN {<<>>}
  ELSE LET shorter == SeqsUpTo(S, n - 1)
       IN  shorter \cup {Append(s, x) : s \in {t \in shorter : Len(t) = n - 1}, x \in S}

\* ------------------------------------------------------------ std::string
\* std::string::npos; size_t(-1) in the program, kept as -1 here
npos == -1

\* the regex class \s, over the characters the inputs use
IsSpace(c) == c \in {" ", "\t"}

RECURSIVE find_first_of(_, _, _)
\* s.find_first_of(c, pos): 0-based index of the first c at or after pos
find_first_of(s, c, pos) ==
  IF pos >= Len(s) THEN npos
  ELSE IF s[pos + 1] = c THEN pos
  ELSE find_first_of(s, c, pos + 1)

\* s.substr(pos, n): at most n characters from 0-based pos, clamped to the end
substr(s, pos, n) ==
  SubSeq(s, pos + 1, IF pos + n > Len(s) THEN Len(s) ELSE pos + n)

RECURSIVE ltrim(_)
\* regex_replace(s, "^\\s+", "")
ltrim(s) ==
  IF s # <<>> /\ IsSpace(Head(s)) THEN ltrim(Tail(s)) ELSE s

RECURSIVE rtrim(_)
\* regex_replace(s, "\\s+$", "")
rtrim(s) ==
  IF s # <<>> /\ IsSpace(s[Len(s)]) THEN rtrim(SubSeq(s, 1, Len(s) - 1)) ELSE s

trim(s) == ltrim(rtrim(s))

\* lineHasKey without the test that the delimiter is not the last character
lineHasKey_NoLastCheck(line, key) ==
  LET eq_pos == find_first_of(line, "=", 0)
  IN  IF eq_pos # npos /\ eq_pos > 0
         /\ trim(substr(line, 0, eq_pos)) = key
      THEN eq_pos
      ELSE npos

\* the lambda lineHasKey: position of the delimiter when the line holds key
lineHasKey(line, key) ==
  LET eq_pos == find_first_of(line, "=", 0)
  IN  IF eq_pos # npos /\ eq_pos > 0 /\ eq_pos < Len(line) - 1
         /\ trim(substr(line, 0, eq_pos)) = key
      THEN eq_pos
      ELSE npos

\* key + "=" + value
KeyValueLine(kv) == kv[1] \o <<"=">> \o kv[2]

\* ------------------------------------------------------- mode enumeration
\* enum class ModifyKeysMode
ModeRead == "read"
ModeWrite == "write"
ModeRemove == "remove"
ModeUndefined == "undefined"

\* ------------------------------------------------------------ list engine
RECURSIVE UniquePairs(_, _)
\* keysToWrite.unique(a.first == b.first): of each run of consecutive pairs
\* with the same key only the first stays; acc holds the pairs kept so far
UniquePairs(acc, rest) ==
  IF rest = <<>> THEN acc
  ELSE IF acc # <<>> /\ acc[Len(acc)][1] = Head(rest)[1]
       THEN UniquePairs(acc, Tail(rest))
       ELSE UniquePairs(Append(acc, Head(rest)), Tail(rest))

RECURSIVE UniqueKeys(_, _)
\* keysToReadOrDelete.unique(a == b)
UniqueKeys(acc, rest) ==
  IF rest = <<>> THEN acc
  ELSE IF acc # <<>> /\ acc[Len(acc)] = Head(rest)
       THEN UniqueKeys(acc, Tail(rest))
       ELSE UniqueKeys(Append(acc, Head(rest)), Tail(rest))

\* insert_or_assign in place of emplace: a later value replaces the earlier
MapEmplace_Assign(m, key, value) ==
  [k \in DOMAIN m \cup {key} |-> IF k = key THEN value ELSE m[k]]

\* keyValueMap.emplace(key, value): inserts only when the key is absent
MapEmplace(m, key, value) ==
  IF key \in DOMAIN m THEN m ELSE m @@ (key :> value)

\* keyValueMap[key]: a missing key reads as the empty string
MapAt(m, key) ==
  IF key \in DOMAIN m THEN m[key] ELSE <<>>

RECURSIVE ScanLineForKeys(_, _, _)
\* read mode, inner loop: test one line against every requested key
ScanLineForKeys(m, line, keys) ==
  IF keys = <<>> THEN m
  ELSE LET key == Head(keys)
           eq_pos == lineHasKey(line, key)
       IN  ScanLineForKeys(
             IF eq_pos # npos
             THEN MapEmplace(m, key, trim(substr(line, eq_pos + 1, Len(line))))
             ELSE m,
             line, Tail(keys))

RECURSIVE ScanLines(_, _, _)
\* read mode, outer loop: getline until the end, skipping lines that start
\* with '#'
ScanLines(m, lines, keys) ==
  IF lines = <<>> THEN m
  ELSE LET input_line == Head(lines)
       IN  IF input_line # <<>> /\ input_line[1] = "#"
           THEN ScanLines(m, Tail(lines), keys)
           ELSE ScanLines(ScanLineForKeys(m, input_line, keys), Tail(lines), keys)

RECURSIVE FirstOccurrences(_, _)
\* the distinct elements of a sequence, in order of first occurrence
FirstOccurrences(acc, rest) ==
  IF rest = <<>> THEN acc
  ELSE IF \E i \in 1..Len(acc) : acc[i] = Head(rest)
       THEN FirstOccurrences(acc, Tail(rest))
       ELSE FirstOccurrences(Append(acc, Head(rest)), Tail(rest))

\* an output loop over the distinct keys only
EmitValues_Distinct(keys, m) ==
  LET distinct == FirstOccurrences(<<>>, keys)
  IN  [i \in 1..Len(distinct) |-> IF distinct[i] \in DOMAIN m THEN m[distinct[i]] ELSE <<>>]

\* read mode, output loop: one value per entry of keysToReadOrDelete
EmitValues(keys, m) ==
  [i \in 1..Len(keys) |-> MapAt(m, keys[i])]

RECURSIVE ReplaceInLine(_, _, _)
\* write mode, inner loop over the pending pairs for one line; it is the
\* 1-based position of the iterator.  Yields <<line, pending pairs>>.
ReplaceInLine(line, pending, it) ==
  IF it > Len(pending) THEN <<line, pending>>
  ELSE IF lineHasKey(line, pending[it][1]) # npos
       THEN ReplaceInLine(KeyValueLine(pending[it]),
                          SubSeq(pending, 1, it - 1) \o SubSeq(pending, it + 1, Len(pending)),
                          it)
       ELSE ReplaceInLine(line, pending, it + 1)

RECURSIVE ReplaceExisting(_, _, _)
\* write mode, outer loop: done holds the lines already visited.
\* Yields <<all_file_lines, pending pairs>>.
ReplaceExisting(done, lines, pending) ==
  IF lines = <<>> THEN <<done, pending>>
  ELSE LET r == ReplaceInLine(Head(lines), pending, 1)
       IN  ReplaceExisting(Append(done, r[1]), Tail(lines), r[2])

\* write mode, second loop: one new line per pair still pending
AppendNew(lines, pending) ==
  lines \o [i \in 1..Len(pending) |-> KeyValueLine(pending[i])]

RECURSIVE EraseKey_SkipAfterErase(_, _, _)
\* an erase loop that also advances after erasing, stepping over the next line
EraseKey_SkipAfterErase(lines, key, line) ==
  IF line > Len(lines) THEN lines
  ELSE IF lineHasKey(lines[line], key) # npos
       THEN EraseKey_SkipAfterErase(
              SubSeq(lines, 1, line - 1) \o SubSeq(lines, line + 1, Len(lines)),
              key, line + 1)
       ELSE EraseKey_SkipAfterErase(lines, key, line + 1)

RECURSIVE EraseKey(_, _, _)
\* delete mode, inner loop: line is the 1-based position of the iterator;
\* erase() yields the position after the erased line, otherwise ++line
EraseKey(lines, key, line) ==
  IF line > Len(lines) THEN lines
  ELSE IF lineHasKey(lines[line], key) # npos
       THEN EraseKey(SubSeq(lines, 1, line - 1) \o SubSeq(lines, line + 1, Len(lines)),
                     key, line)
       ELSE EraseKey(lines, key, line + 1)

RECURSIVE EraseKeys(_, _)
\* delete mode, outer loop over the keys
EraseKeys(lines, keys) ==
  IF keys = <<>> THEN lines
  ELSE EraseKeys(EraseKey(lines, Head(keys), 1), Tail(keys))

\* keysToWrite.emplace_back(trim(arg.substr(0, eq_pos)),
\*                          trim(arg.substr(eq_pos + 1, arg.size())))
ParsePair(arg, eq_pos) ==
  << trim(substr(arg, 0, eq_pos)), trim(substr(arg, eq_pos + 1, Len(arg))) >>

\* the write branch of main() as a function of the file's lines and of the
\* accepted <key>=<value> arguments: parse, unique(), replace, append
WriteRun(lines, arguments) ==
  LET parsed == [i \in 1..Len(arguments) |->
                   ParsePair(arguments[i], find_first_of(arguments[i], "=", 0))]
      r == ReplaceExisting(<<>>, lines, UniquePairs(<<>>, parsed))
  IN  AppendNew(r[1], r[2])

\* the read branch of main() as a function of the file's lines and of the
\* <key> arguments: trim, scan, emit
ReadRun(lines, arguments) ==
  LET keys == [i \in 1..Len(arguments) |-> trim(arguments[i])]
  IN  EmitValues(keys, ScanLines(<<>>, lines, keys))

\* ------------------------------------------------------------------ state
VARIABLES
  pc,                  \* position of main()
  opts,                \* option letters getopt has still to return
  args,                \* argv[optind .. i): positional arguments read so far
  file_named,          \* strlen(file_to_parse_name) != 0
  mode,
  keysToReadOrDelete,
  keysToWrite,
  can_read,            \* whether std::ifstream opens the file
  can_write,           \* whether std::ofstream opens the file
  disk,                \* the lines of the file on disk
  disk_at_start,       \* the lines of the file when main() was entered
  all_file_lines,
  keyValueMap,
  out,                 \* lines written to std::cout
  err,                 \* the last error or usage message written to std::cerr
  ret                  \* value returned by main()

vars ==
  << pc, opts, args, file_named, mode, keysToReadOrDelete,
     keysToWrite, can_read, can_write, disk, disk_at_start, all_file_lines,
     keyValueMap, out, err, ret >>

\* the diagnostics of main()
MsgNone == "none"
MsgHelp == "usage"
MsgConflict == "READ, WRITE and DELETE can not be used together"
MsgNoFile == "Please specify a file path"
MsgNoMode == "Please specify a mode: READ, WRITE or DELETE"
MsgKeyFormat == "Wrong format of options - Expected <key>"
MsgPairFormat == "Wrong format to set key - Expected <key>=<value>"
MsgNoKeys == "Specify at least one key to READ, WRITE or DELETE"
MsgOpenInput == "Failed to open file"
MsgOpenOutput == "Failed to open output file"

\* return statement of main(): message printed, value returned
Return(msg, value) ==
  /\ pc' = "exit"
  /\ err' = msg
  /\ ret' = value

Init ==
  /\ pc = "start"
  /\ opts \in SeqsUpTo(OptLetters, MaxOpts)
  /\ args = <<>>
  /\ file_named = FALSE
  /\ mode = ModeUndefined
  /\ keysToReadOrDelete = <<>>
  /\ keysToWrite = <<>>
  /\ can_read \in BOOLEAN
  /\ can_write \in BOOLEAN
  /\ disk \in SeqsUpTo(FileLines, MaxLines)
  /\ can_read = FALSE => disk = <<>>
  /\ disk_at_start = disk
  /\ all_file_lines = <<>>
  /\ keyValueMap = <<>>
  /\ out = <<>>
  /\ err = MsgNone
  /\ ret = 0

\* if (argc < 2): the command line holds nothing but the program name
NoArguments ==
  /\ pc = "start"
  /\ opts = <<>>
  /\ Return(MsgHelp, 0)
  /\ UNCHANGED << opts, args, file_named, mode, keysToReadOrDelete,
                  keysToWrite, can_read, can_write, disk, disk_at_start,
                  all_file_lines, keyValueMap, out >>

\* mode switch shared by the cases 'w', 'r' and 'd'
SelectMode(wanted) ==
  IF mode # ModeUndefined /\ mode # wanted
  THEN /\ Return(MsgConflict, -1)
       /\ UNCHANGED << mode, file_named >>
  ELSE /\ mode' = wanted
       /\ pc' = "getopt"
       /\ UNCHANGED << err, ret, file_named >>

\* one turn of while ((opt = getopt(...)) != -1)
GetoptNext ==
  /\ pc \in {"start", "getopt"}
  /\ opts # <<>>
  /\ opts' = Tail(opts)
  /\ LET opt == Head(opts)
     IN  CASE opt = "h" ->
                /\ Return(MsgHelp, 0)
                /\ UNCHANGED << mode, file_named >>
           [] opt = "v" ->
                \* verboseEnabled only switches on the echo of the parsed
                \* arguments on std::cerr, which the state does not hold
                /\ pc' = "getopt"
                /\ UNCHANGED << err, ret, mode, file_named >>
           [] opt = "f" ->
                /\ file_named' = TRUE
                /\ pc' = "getopt"
                /\ UNCHANGED << err, ret, mode >>
           [] opt = "w" -> SelectMode(ModeWrite)
           [] opt = "r" -> SelectMode(ModeRead)
           [] opt = "d" -> SelectMode(ModeRemove)
           [] OTHER ->
                /\ pc' = "getopt"
                /\ UNCHANGED << err, ret, mode, file_named >>
  /\ UNCHANGED << args, keysToReadOrDelete, keysToWrite, can_read, can_write,
                  disk, disk_at_start, all_file_lines, keyValueMap, out >>

\* getopt returned -1: the checks of the file name and of the mode
CheckOptions ==
  /\ pc \in {"start", "getopt"}
  /\ opts = <<>>
  /\ IF ~file_named THEN Return(MsgNoFile, -1)
     ELSE IF mode = ModeUndefined THEN Return(MsgNoMode, -1)
     ELSE /\ pc' = "parse_args"
          /\ UNCHANGED << err, ret >>
  /\ UNCHANGED << opts, args, file_named, mode, keysToReadOrDelete,
                  keysToWrite, can_read, can_write, disk, disk_at_start,
                  all_file_lines, keyValueMap, out >>

\* one turn of for (int i = optind; i < argc; ++i)
ParseArg ==
  /\ pc = "parse_args"
  /\ Len(args) < MaxArgs
  /\ \E arg \in ArgStrings :
       LET eq_pos == find_first_of(arg, "=", 0)
       IN  /\ args' = Append(args, arg)
           /\ IF mode = ModeRead \/ mode = ModeRemove
              THEN IF eq_pos = npos
                   THEN /\ keysToReadOrDelete' = Append(keysToReadOrDelete, trim(arg))
                        /\ UNCHANGED << pc, err, ret, keysToWrite >>
                   ELSE /\ Return(MsgKeyFormat, -1)
                        /\ UNCHANGED << keysToReadOrDelete, keysToWrite >>
              ELSE IF eq_pos # npos /\ eq_pos > 0 /\ eq_pos < Len(arg) - 1
                   THEN /\ keysToWrite' = Append(keysToWrite, ParsePair(arg, eq_pos))
                        /\ UNCHANGED << pc, err, ret, keysToReadOrDelete >>
                   ELSE /\ Return(MsgPairFormat, -1)
                        /\ UNCHANGED << keysToReadOrDelete, keysToWrite >>
  /\ UNCHANGED << opts, file_named, mode, can_read, can_write,
                  disk, disk_at_start, all_file_lines, keyValueMap, out >>

\* i == argc: keysToWrite.unique(...) and the check for an empty key set
EndArgs ==
  /\ pc = "parse_args"
  /\ keysToWrite' = UniquePairs(<<>>, keysToWrite)
  /\ IF keysToReadOrDelete = <<>> /\ keysToWrite' = <<>> /\ keysToReadOrDelete = <<>>
     THEN Return(MsgNoKeys, -1)
     ELSE /\ pc' = "open_input"
          /\ UNCHANGED << err, ret >>
  /\ UNCHANGED << opts, args, file_named, mode, keysToReadOrDelete,
                  can_read, can_write, disk, disk_at_start, all_file_lines,
                  keyValueMap, out >>

\* std::ifstream input_file(file_to_parse_name) and the is_open() test
OpenInput ==
  /\ pc = "open_input"
  /\ IF ~can_read
     THEN Return(MsgOpenInput, 0)
     ELSE /\ pc' = IF mode = ModeRead THEN "read_scan" ELSE "load"
          /\ UNCHANGED << err, ret >>
  /\ UNCHANGED << opts, args, file_named, mode, keysToReadOrDelete,
                  keysToWrite, can_read, can_write, disk, disk_at_start,
                  all_file_lines, keyValueMap, out >>

\* read mode: the getline loop filling keyValueMap
ReadScan ==
  /\ pc = "read_scan"
  /\ keyValueMap' = ScanLines(<<>>, disk, keysToReadOrDelete)
  /\ pc' = "read_emit"
  /\ UNCHANGED << opts, args, file_named, mode, keysToReadOrDelete,
                  keysToWrite, can_read, can_write, disk, disk_at_start,
                  all_file_lines, out, err, ret >>

\* read mode: the output loop, then return 0
ReadEmit ==
  /\ pc = "read_emit"
  /\ out' = EmitValues(keysToReadOrDelete, keyValueMap)
  /\ Return(err, 0)
  /\ UNCHANGED << opts, args, file_named, mode, keysToReadOrDelete,
                  keysToWrite, can_read, can_write, disk, disk_at_start,
                  all_file_lines, keyValueMap >>

\* write and delete mode: the getline loop filling all_file_lines
LoadLines ==
  /\ pc = "load"
  /\ all_file_lines' = disk
  /\ pc' = "open_output"
  /\ UNCHANGED << opts, args, file_named, mode, keysToReadOrDelete,
                  keysToWrite, can_read, can_write, disk, disk_at_start,
                  keyValueMap, out, err, ret >>

\* std::ofstream output_file(file_to_parse_name): opening truncates the file
OpenOutput ==
  /\ pc = "open_output"
  /\ IF ~can_write
     THEN /\ Return(MsgOpenOutput, -1)
          /\ UNCHANGED disk
     ELSE /\ disk' = <<>>
          /\ pc' = IF mode = ModeWrite THEN "write_replace" ELSE "delete"
          /\ UNCHANGED << err, ret >>
  /\ UNCHANGED << opts, args, file_named, mode, keysToReadOrDelete,
                  keysToWrite, can_read, can_write, disk_at_start, all_file_lines,
                  keyValueMap, out >>

\* write mode: replace values of existing keys
WriteReplace ==
  /\ pc = "write_replace"
  /\ LET r == ReplaceExisting(<<>>, all_file_lines, keysToWrite)
     IN  /\ all_file_lines' = r[1]
         /\ keysToWrite' = r[2]
  /\ pc' = "write_append"
  /\ UNCHANGED << opts, args, file_named, mode, keysToReadOrDelete,
                  can_read, can_write, disk, disk_at_start, keyValueMap, out,
                  err, ret >>

\* write mode: add all new key-value pairs
WriteAppend ==
  /\ pc = "write_append"
  /\ all_file_lines' = AppendNew(all_file_lines, keysToWrite)
  /\ pc' = "persist"
  /\ UNCHANGED << opts, args, file_named, mode, keysToReadOrDelete,
                  keysToWrite, can_read, can_write, disk, disk_at_start,
                  keyValueMap, out, err, ret >>

\* delete mode: unique(), then remove all occurrences of every key
DeleteKeys ==
  /\ pc = "delete"
  /\ keysToReadOrDelete' = UniqueKeys(<<>>, keysToReadOrDelete)
  /\ all_file_lines' = EraseKeys(all_file_lines, keysToReadOrDelete')
  /\ pc' = "persist"
  /\ UNCHANGED << opts, args, file_named, mode, keysToWrite,
                  can_read, can_write, disk, disk_at_start, keyValueMap, out,
                  err, ret >>

\* write out the file, close it, return 0
Persist ==
  /\ pc = "persist"
  /\ disk' = all_file_lines
  /\ Return(err, 0)
  /\ UNCHANGED << opts, args, file_named, mode, keysToReadOrDelete,
                  keysToWrite, can_read, can_write, disk_at_start, all_file_lines,
                  keyValueMap, out >>

Next ==
  \/ NoArguments
  \/ GetoptNext
  \/ CheckOptions
  \/ ParseArg
  \/ EndArgs
  \/ OpenInput
  \/ ReadScan
  \/ ReadEmit
  \/ LoadLines
  \/ OpenOutput
  \/ WriteReplace
  \/ WriteAppend
  \/ DeleteKeys
  \/ Persist

Spec == Init /\ [][Next]_vars

\* ------------------------------------------------- vocabulary of the claims
\* main() returned 0 after completing the given mode without any diagnostic
Done(m) == pc = "exit" /\ mode = m /\ ret = 0 /\ err = MsgNone

\* the line's first character is '#'
IsComment(line) == line # <<>> /\ line[1] = "#"

\* 1-based position of the first '=' of the line, 0 when it has none
Delimiter(line) ==
  IF \E p \in 1..Len(line) : line[p] = "="
  THEN CHOOSE p \in 1..Len(line) :
         line[p] = "=" /\ \A q \in 1..(p - 1) : line[q] # "="
  ELSE 0

\* the line encodes the key: its first '=' is neither its first nor its last
\* character and the trimmed text before it is the key
HoldsKey(line, key) ==
  /\ Delimiter(line) > 1
  /\ Delimiter(line) < Len(line)
  /\ trim(SubSeq(line, 1, Delimiter(line) - 1)) = key

\* the trimmed text after the first '=' of the line
ValueOf(line) == trim(SubSeq(line, Delimiter(line) + 1, Len(line)))

\* positions of the lines that read mode may match against the key
ReadMatches(lines, key) ==
  {j \in 1..Len(lines) : ~IsComment(lines[j]) /\ HoldsKey(lines[j], key)}

\* positions of the lines that hold the key
Matches(lines, key) == {j \in 1..Len(lines) : HoldsKey(lines[j], key)}

Min(S) == CHOOSE x \in S : \A y \in S : x <= y
Max(S) == CHOOSE x \in S : \A y \in S : x >= y

\* the keys named by the arguments of a read or delete run
RequestedKeys == {trim(args[i]) : i \in 1..Len(args)}

\* the pair named by the i-th argument of a write run
RequestedPair(i) ==
  << trim(SubSeq(args[i], 1, Delimiter(args[i]) - 1)),
     trim(SubSeq(args[i], Delimiter(args[i]) + 1, Len(args[i]))) >>

\* the keys named by the arguments of a write run
RequestedWriteKeys == {RequestedPair(i)[1] : i \in 1..Len(args)}

\* the arguments of a write run that are the first to name their key
FirstOfKey == {i \in 1..Len(args) :
                 \A j \in 1..(i - 1) : RequestedPair(j)[1] # RequestedPair(i)[1]}

\* ---------------------------------------------------------------- claims
\* C1 as stated: in read mode, when two or more non-comment lines match a
\* requested key, the value emitted for it is the trimmed value of the LAST
\* matching line in file order.
C1_LastMatchWins ==
  Done(ModeRead) =>
    \A i \in 1..Len(keysToReadOrDelete) :
      LET M == ReadMatches(disk, keysToReadOrDelete[i])
      IN  Cardinality(M) >= 2 => out[i] = ValueOf(disk[Max(M)])

\* C1 amended: in read mode, when two or more non-comment lines match a
\* requested key, the value emitted for it is the trimmed value of the FIRST
\* matching line in file order; later matching lines do not overwrite it.
C1_FirstMatchWins ==
  Done(ModeRead) =>
    \A i \in 1..Len(keysToReadOrDelete) :
      LET M == ReadMatches(disk, keysToReadOrDelete[i])
      IN  Cardinality(M) >= 2 => out[i] = ValueOf(disk[Min(M)])

\* C1 witness: a read run completed on a file where a requested key is matched
\* by two lines with different values
C1_Witness ==
  /\ Done(ModeRead)
  /\ \E i \in 1..Len(keysToReadOrDelete) :
       LET M == ReadMatches(disk, keysToReadOrDelete[i])
       IN  /\ Cardinality(M) >= 2
           /\ ValueOf(disk[Min(M)]) # ValueOf(disk[Max(M)])

\* the value read mode is to emit for a key
ExpectedValue(lines, key) ==
  IF ReadMatches(lines, key) = {} THEN <<>>
  ELSE ValueOf(lines[Min(ReadMatches(lines, key))])

\* C7 as stated: the read output has exactly one value line per distinct
\* requested key, in order of first occurrence among the arguments; a key
\* matched by no line yields an empty line.
C7_OneLinePerDistinctKey ==
  Done(ModeRead) =>
    LET distinct == FirstOccurrences(<<>>, [i \in 1..Len(args) |-> trim(args[i])])
    IN  /\ Len(out) = Len(distinct)
        /\ \A i \in 1..Len(distinct) : out[i] = ExpectedValue(disk, distinct[i])

\* C7 amended: the read output has exactly one value line per key argument,
\* in argument order, so a key given k times yields k output lines; a key
\* matched by no line yields an empty line and the run still returns 0.
C7_OneLinePerArgument ==
  /\ Done(ModeRead) =>
       /\ Len(out) = Len(args)
       /\ \A i \in 1..Len(args) : out[i] = ExpectedValue(disk, trim(args[i]))
  /\ pc = "read_emit" => ret = 0 /\ err = MsgNone

\* C7 witness: a read run completed whose arguments repeat a key and name a
\* key that no line matches
C7_Witness ==
  /\ Done(ModeRead)
  /\ \E i, j \in 1..Len(args) : i < j /\ trim(args[i]) = trim(args[j])
  /\ \E i \in 1..Len(args) :
       /\ ReadMatches(disk, trim(args[i])) = {}
       /\ out[i] = <<>>
  /\ \E i \in 1..Len(args) : out[i] # <<>>

\* the line holds none of the keys
PassThrough(line, keys) == \A k \in keys : ~HoldsKey(line, k)

\* C8: after a write or delete, every input line that holds none of the
\* requested keys is in the output with identical content, and these lines
\* keep their relative order (a write keeps them at their position, a delete
\* keeps them as the same subsequence).
C8_PassThrough ==
  /\ Done(ModeWrite) =>
       /\ Len(disk) >= Len(disk_at_start)
       /\ \A i \in 1..Len(disk_at_start) :
            PassThrough(disk_at_start[i], RequestedWriteKeys) =>
              disk[i] = disk_at_start[i]
  /\ Done(ModeRemove) =>
       SelectSeq(disk, LAMBDA l : PassThrough(l, RequestedKeys))
         = SelectSeq(disk_at_start, LAMBDA l : PassThrough(l, RequestedKeys))

\* C8 witness: a write completed that changed a file holding two differing
\* pass-through lines, one of them blank or malformed
C8_Witness ==
  /\ Done(ModeWrite)
  /\ disk # disk_at_start
  /\ \E i, j \in 1..Len(disk_at_start) :
       /\ i < j
       /\ disk_at_start[i] # disk_at_start[j]
       /\ PassThrough(disk_at_start[i], RequestedWriteKeys)
       /\ PassThrough(disk_at_start[j], RequestedWriteKeys)
       /\ Delimiter(disk_at_start[i]) \in {0, Len(disk_at_start[i])}

\* C9: a delete removes every line that holds a requested key: the result is
\* the input without those lines, its length is the input's minus their number,
\* no remaining line holds a requested key, and the result depends only on the
\* set of keys, not on repetitions among the arguments.
C9_DeleteExhaustive ==
  Done(ModeRemove) =>
    LET hit == {j \in 1..Len(disk_at_start) :
                  ~PassThrough(disk_at_start[j], RequestedKeys)}
    IN  /\ disk = SelectSeq(disk_at_start, LAMBDA l : PassThrough(l, RequestedKeys))
        /\ Len(disk) = Len(disk_at_start) - Cardinality(hit)
        /\ \A j \in 1..Len(disk) : PassThrough(disk[j], RequestedKeys)

\* C9 witness: a delete completed where one requested key is held by two
\* lines and a key is repeated among the arguments
C9_Witness ==
  /\ Done(ModeRemove)
  /\ \E k \in RequestedKeys : Cardinality(Matches(disk_at_start, k)) >= 2
  /\ \E i, j \in 1..Len(args) : i < j /\ trim(args[i]) = trim(args[j])
  /\ Len(disk) < Len(disk_at_start)

\* the pairs the write set is to hold: for every key the first pair that the
\* arguments supply, in argument order
FirstPairs ==
  LET idx == {i \in 1..Len(args) : i \in FirstOfKey}
      Nth[n \in 1..Cardinality(idx)] ==
        IF n = 1 THEN Min(idx) ELSE Min({i \in idx : i > Nth[n - 1]})
  IN  [n \in 1..Cardinality(idx) |-> RequestedPair(Nth[n])]

\* C2: the write set keeps only the first pair supplied for each key, also
\* when the key recurs non-adjacently; a later pair for the same key is
\* discarded: every line of the resulting file is a line of the input or
\* key=value of a first pair.
C2_FirstPairPerKey ==
  /\ pc = "open_input" /\ mode = ModeWrite => keysToWrite = FirstPairs
  /\ Done(ModeWrite) =>
       \A j \in 1..Len(disk) :
         \/ \E i \in 1..Len(disk_at_start) : disk[j] = disk_at_start[i]
         \/ \E n \in 1..Len(FirstPairs) : disk[j] = KeyValueLine(FirstPairs[n])

\* C3: running the write operation a second time with the same arguments
\* leaves the file as the first run left it.
C3_WriteIdempotent ==
  Done(ModeWrite) => WriteRun(disk, args) = disk

\* C4: after a write, reading a written key on the resulting file emits the
\* trimmed value of the pair written for it (the first pair the arguments
\* supply for the key), also for a key that starts with '#'.
C4_ReadAfterWrite ==
  Done(ModeWrite) =>
    \A i \in FirstOfKey :
      ReadRun(disk, << RequestedPair(i)[1] >>) = << RequestedPair(i)[2] >>

\* C5: when the file cannot be opened for reading or for writing main()
\* returns non-zero; it returns 0 only on success or on a help request.
C5_OpenFailureIsNonZero ==
  pc = "exit" =>
    /\ err \in {MsgOpenInput, MsgOpenOutput} => ret # 0
    /\ ret = 0 => err \in {MsgNone, MsgHelp}

\* C6: a line whose first character is '#' is matched by no key in any mode:
\* a read reports no value taken from it, and every comment line of the input
\* is unchanged in the output of a write (at its position) or of a delete (in
\* the same order).
C6_CommentImmunity ==
  /\ Done(ModeRead) =>
       \A i \in 1..Len(out) : out[i] = ExpectedValue(disk, trim(args[i]))
  /\ Done(ModeWrite) =>
       \A i \in 1..Len(disk_at_start) :
         IsComment(disk_at_start[i]) =>
           i <= Len(disk) /\ disk[i] = disk_at_start[i]
  /\ Done(ModeRemove) =>
       SelectSeq(disk, IsComment) = SelectSeq(disk_at_start, IsComment)

\* C10: for every pair of the write set, when its key is held by one or more
\* lines only the first of them becomes key=value, the others stay as they
\* were and nothing is appended for the key; when no line holds the key one
\* line key=value is appended after the original lines, the appended lines
\* following the order of the request; the result is never shorter than the
\* input.
C10_FirstMatchOnlyAppendOnMiss ==
  Done(ModeWrite) =>
    LET n0 == Len(disk_at_start)
        missed == SelectSeq(FirstPairs, LAMBDA kv : Matches(disk_at_start, kv[1]) = {})
    IN  /\ Len(disk) >= n0
        /\ SubSeq(disk, n0 + 1, Len(disk))
             = [n \in 1..Len(missed) |-> KeyValueLine(missed[n])]
        /\ \A n \in 1..Len(FirstPairs) :
             LET M == Matches(disk_at_start, FirstPairs[n][1])
             IN  M # {} =>
                   /\ disk[Min(M)] = KeyValueLine(FirstPairs[n])
                   /\ \A j \in M \ {Min(M)} : disk[j] = disk_at_start[j]
====
